---- MODULE Spec2Model ----
(***************************************************************************)
(* The Flask request handlers of app.py as a state machine.                *)
(*                                                                         *)
(* One request is served at a time (the handlers share no mutable state).  *)
(* A handler is cut at its calls into the two collaborators, decoder and   *)
(* classplus_client: each such call is one action whose outcome (a truthy  *)
(* value, a falsy value, or an exception) is chosen by the environment.    *)
(* `log` records the calls made while serving the current request.         *)
(***************************************************************************)
EXTENDS Integers, Sequences, FiniteSets, TLC

VARIABLES debug, route, pc, request, loc, log, resp

vars == <<debug, route, pc, request, loc, log, resp>>

-----------------------------------------------------------------------------
(* Bounds *)

\* longest urls array enumerated exhaustively
MaxUrls == 3
\* the batch scenario: ScenarioLen entries of which ScenarioBad lack encrypted_url
ScenarioLen == 5
ScenarioBad == 2

-----------------------------------------------------------------------------
(* Python values *)

\* Python's None, also what dict.get / args.get give for an absent key
NoneVal == "None"

\* `not x` with only None as falsy (an `is None` test instead of truthiness)
Not_IsNone(x) == x = NoneVal

\* `not x` for the values that occur: None, "" and False are falsy
Not(x) == x \in {NoneVal, "", "False"}

\* str(e) of the exceptions that occur
AttributeError == "object has no attribute 'get'"
BadRequest == "400 Bad Request"
CoreError(op) == "error raised by " \o op

-----------------------------------------------------------------------------
(* Requests *)

Tokens == {NoneVal, "", "tokA", "tokB"}
EncryptedUrls == {NoneVal, "", "encA"}
VideoIds == {NoneVal, "v1"}
PlainUrls == {NoneVal, "", "http://cdn/v.m3u8"}

\* one element of the urls array: a JSON object, or any other JSON value
NonObjectEntry == [kind |-> "nonobject", encrypted_url |-> NoneVal, video_id |-> NoneVal]
Entries == {NonObjectEntry} \cup
           [kind : {"object"}, encrypted_url : EncryptedUrls, video_id : VideoIds]

GoodEntry == [kind |-> "object", encrypted_url |-> "encA", video_id |-> "v1"]
BadEntry == [kind |-> "object", encrypted_url |-> NoneVal, video_id |-> NoneVal]
ScenarioUrls == {s \in [1..ScenarioLen -> {GoodEntry, BadEntry}] :
                    Cardinality({i \in 1..ScenarioLen : s[i] = BadEntry}) = ScenarioBad}

UrlLists == UNION {[1..n -> Entries] : n \in 0..MaxUrls} \cup ScenarioUrls

\* kind: what request.get_json() does: raises ("malformed"), returns a falsy
\* value ("falsy"), a truthy non-dict ("nonobject") or a non-empty dict ("object")
Req(kind, token, encrypted_url, video_id, urlsKind, urls, url) ==
    [kind |-> kind, token |-> token, encrypted_url |-> encrypted_url,
     video_id |-> video_id, urlsKind |-> urlsKind, urls |-> urls, url |-> url]

BodylessRequests ==
    {Req(k, NoneVal, NoneVal, NoneVal, "missing", <<>>, NoneVal) :
        k \in {"malformed", "falsy", "nonobject"}}

DecodeRequests == BodylessRequests \cup
    {Req("object", t, e, v, "missing", <<>>, NoneVal) :
        t \in Tokens, e \in EncryptedUrls, v \in VideoIds}

BatchRequests == BodylessRequests \cup
    {Req("object", t, NoneVal, NoneVal, "list", u, NoneVal) :
        t \in Tokens, u \in UrlLists} \cup
    {Req("object", t, NoneVal, NoneVal, k, <<>>, NoneVal) :
        t \in Tokens, k \in {"missing", "nonlist"}}

ValidateRequests == BodylessRequests \cup
    {Req("object", t, NoneVal, NoneVal, "missing", <<>>, NoneVal) : t \in Tokens}

SimpleRequests ==
    {Req("args", t, NoneVal, NoneVal, "missing", <<>>, u) :
        t \in Tokens, u \in PlainUrls}

NoRequest == Req("none", NoneVal, NoneVal, NoneVal, "missing", <<>>, NoneVal)

RequestsOf(r) ==
    CASE r = "decode" -> DecodeRequests
      [] r = "batch" -> BatchRequests
      [] r = "validate" -> ValidateRequests
      [] r = "simple" -> SimpleRequests

Routes == {"decode", "batch", "validate", "simple"}

-----------------------------------------------------------------------------
(* The collaborators, as seen from the handlers *)

\* a call returns a value or raises
Returned(v) == [raised |-> FALSE, val |-> v]
Raised(op) == [raised |-> TRUE, val |-> CoreError(op)]

ValidateOutcomes == {Returned("True"), Returned("False"), Raised("validate_token")}
TokenInfoOutcomes == {Returned("token_info"), Raised("get_token_info")}
DecodeOutcomes == {Returned("decA"), Returned(NoneVal), Returned(""), Raised("decode_url")}
Playable(url, tok) == url \o "?auth=" \o tok
GenerateOutcomes(url, tok) == {Returned(Playable(url, tok)), Raised("generate_playable_url")}
TimestampOutcomes == {Returned("ts"), Raised("get_timestamp")}

\* one entry of the call log; item is the batch loop position, 0 outside the loop
Call(op, arg, tok, item, o) ==
    [op |-> op, arg |-> arg, token |-> tok, item |-> item,
     raised |-> o.raised, val |-> o.val]

-----------------------------------------------------------------------------
(* Responses *)

NoBody == [none |-> NoneVal]
NoResp == [status |-> 0, body |-> NoBody]

Response(status, body) == [status |-> status, body |-> body]

ErrorResponse(status, error, code) ==
    Response(status, [error |-> error, code |-> code])

Details_Always(e) == e

\* str(e) if app.debug else None
Details(e) == IF debug THEN e ELSE NoneVal

decode_InternalError(e) ==
    Response(500, [error |-> "Internal server error", code |-> "INTERNAL_ERROR",
                   details |-> Details(e)])

batch_InternalError(e) ==
    Response(500, [error |-> "Internal server error", code |-> "INTERNAL_ERROR",
                   details |-> Details(e)])

validate_InternalError(e) ==
    Response(500, [error |-> "Internal server error", code |-> "INTERNAL_ERROR",
                   details |-> Details(e)])

simple_Error(status, error) ==
    Response(status, [status |-> "error", success |-> FALSE, error |-> error])

InvalidToken_Forbidden == ErrorResponse(403, "Invalid or expired token", "FORBIDDEN")

InvalidToken == ErrorResponse(401, "Invalid or expired token", "INVALID_TOKEN")

-----------------------------------------------------------------------------
(* State *)

InitLoc ==
    [token |-> NoneVal, encrypted_url |-> NoneVal, video_id |-> NoneVal,
     video_url |-> NoneVal, urls |-> <<>>, idx |-> 0, decoded_url |-> NoneVal,
     results |-> <<>>, is_valid |-> "False", token_info |-> NoneVal]

Init ==
    /\ debug \in BOOLEAN
    /\ route = "none"
    /\ pc = "idle"
    /\ request = NoRequest
    /\ loc = InitLoc
    /\ log = <<>>
    /\ resp = NoResp

\* the handler goes on at newpc
Goto(newpc, newloc, newlog) ==
    /\ pc' = newpc
    /\ loc' = newloc
    /\ log' = newlog
    /\ UNCHANGED <<debug, route, request, resp>>

\* the handler returns response r
Return(r, newloc, newlog) ==
    /\ pc' = "done"
    /\ resp' = r
    /\ loc' = newloc
    /\ log' = newlog
    /\ UNCHANGED <<debug, route, request>>

\* Flask routes a request to its view function
Dispatch ==
    /\ pc = "idle"
    /\ \E r \in Routes : \E q \in RequestsOf(r) :
          /\ route' = r
          /\ request' = q
    /\ pc' = "parse"
    /\ loc' = InitLoc
    /\ log' = <<>>
    /\ resp' = NoResp
    /\ UNCHANGED debug

\* the response has been sent; nothing of the request is kept
Sent ==
    /\ pc = "done"
    /\ pc' = "idle"
    /\ route' = "none"
    /\ request' = NoRequest
    /\ loc' = InitLoc
    /\ log' = <<>>
    /\ resp' = NoResp
    /\ UNCHANGED debug

-----------------------------------------------------------------------------
(* Conditions the handlers branch on *)

TokenRejected_Never(valid) == FALSE

\* if not classplus_client.validate_token(token)
TokenRejected(valid) == Not(valid)

DecodeFailed_IsNone(decoded_url) == decoded_url = NoneVal

\* if not decoded_url
DecodeFailed(decoded_url) == Not(decoded_url)

TokenInfoWanted_Always(is_valid) == TRUE

\* if is_valid
TokenInfoWanted(is_valid) == ~Not(is_valid)

\* if not urls or not isinstance(urls, list); a missing key defaults to []
UrlsRejected(q) == q.urlsKind # "list" \/ Len(q.urls) = 0

-----------------------------------------------------------------------------
(* POST /api/decode *)

\* request.get_json() and the checks of the required fields
decode_parse ==
    /\ route = "decode" /\ pc = "parse"
    /\ LET l == [loc EXCEPT !.token = request.token,
                            !.encrypted_url = request.encrypted_url,
                            !.video_id = request.video_id]
       IN  CASE request.kind = "malformed" ->
                  Return(decode_InternalError(BadRequest), loc, log)
             [] request.kind = "falsy" ->
                  Return(ErrorResponse(400, "Invalid JSON payload", "INVALID_JSON"), loc, log)
             [] request.kind = "nonobject" ->
                  Return(decode_InternalError(AttributeError), loc, log)
             [] OTHER ->
                  IF Not(l.token)
                  THEN Return(ErrorResponse(400, "Token is required", "MISSING_TOKEN"), l, log)
                  ELSE IF Not(l.encrypted_url)
                  THEN Return(ErrorResponse(400, "Encrypted URL is required", "MISSING_URL"),
                              l, log)
                  ELSE Goto("validate", l, log)

decode_validate ==
    /\ route = "decode" /\ pc = "validate"
    /\ \E o \in ValidateOutcomes :
          LET newlog == Append(log, Call("validate_token", NoneVal, loc.token, 0, o))
          IN  IF o.raised THEN Return(decode_InternalError(o.val), loc, newlog)
              ELSE IF TokenRejected(o.val) THEN Return(InvalidToken, loc, newlog)
              ELSE Goto("decode", loc, newlog)

decode_decode ==
    /\ route = "decode" /\ pc = "decode"
    /\ \E o \in DecodeOutcomes :
          LET newlog == Append(log, Call("decode_url", loc.encrypted_url, loc.token, 0, o))
              l == [loc EXCEPT !.decoded_url = o.val]
          IN  IF o.raised THEN Return(decode_InternalError(o.val), loc, newlog)
              ELSE IF DecodeFailed(l.decoded_url)
              THEN Return(ErrorResponse(400, "Failed to decode URL", "DECODE_FAILED"),
                          l, newlog)
              ELSE Goto("generate", l, newlog)

decode_generate ==
    /\ route = "decode" /\ pc = "generate"
    /\ \E o \in GenerateOutcomes(loc.decoded_url, loc.token) :
          LET newlog == Append(log, Call("generate_playable_url", loc.decoded_url,
                                         loc.token, 0, o))
          IN  IF o.raised THEN Return(decode_InternalError(o.val), loc, newlog)
              ELSE Return(Response(200, [status |-> "ok", success |-> TRUE,
                                         url |-> o.val,
                                         decoded_url |-> loc.decoded_url,
                                         video_id |-> loc.video_id]),
                          loc, newlog)

-----------------------------------------------------------------------------
(* GET /api *)

SimpleUrlArg_Encrypted(q) == q.encrypted_url

\* request.args.get('url')
SimpleUrlArg(q) == q.url

simple_parse ==
    /\ route = "simple" /\ pc = "parse"
    /\ LET l == [loc EXCEPT !.video_url = SimpleUrlArg(request),
                            !.token = request.token]
       IN  IF Not(l.video_url)
           THEN Return(simple_Error(400, "URL parameter is required"), l, log)
           ELSE IF Not(l.token)
           THEN Return(simple_Error(400, "Token parameter is required"), l, log)
           ELSE Goto("validate", l, log)

simple_validate ==
    /\ route = "simple" /\ pc = "validate"
    /\ \E o \in ValidateOutcomes :
          LET newlog == Append(log, Call("validate_token", NoneVal, loc.token, 0, o))
          IN  IF o.raised
              THEN Return(simple_Error(500, "Internal server error"), loc, newlog)
              ELSE IF TokenRejected(o.val)
              THEN Return(simple_Error(401, "Invalid or expired token"), loc, newlog)
              ELSE Goto("generate", loc, newlog)

simple_generate ==
    /\ route = "simple" /\ pc = "generate"
    /\ \E o \in GenerateOutcomes(loc.video_url, loc.token) :
          LET newlog == Append(log, Call("generate_playable_url", loc.video_url,
                                         loc.token, 0, o))
          IN  IF o.raised
              THEN Return(simple_Error(500, "Internal server error"), loc, newlog)
              ELSE Return(Response(200, [status |-> "ok", success |-> TRUE,
                                         url |-> o.val]),
                          loc, newlog)

-----------------------------------------------------------------------------
(* POST /api/validate-token *)

validate_parse ==
    /\ route = "validate" /\ pc = "parse"
    /\ LET l == [loc EXCEPT !.token = request.token]
       IN  CASE request.kind = "malformed" ->
                  Return(validate_InternalError(BadRequest), loc, log)
             [] request.kind = "falsy" ->
                  Return(ErrorResponse(400, "Invalid JSON payload", "INVALID_JSON"), loc, log)
             [] request.kind = "nonobject" ->
                  Return(validate_InternalError(AttributeError), loc, log)
             [] OTHER ->
                  IF Not(l.token)
                  THEN Return(ErrorResponse(400, "Token is required", "MISSING_TOKEN"), l, log)
                  ELSE Goto("validate", l, log)

validate_validate ==
    /\ route = "validate" /\ pc = "validate"
    /\ \E o \in ValidateOutcomes :
          LET newlog == Append(log, Call("validate_token", NoneVal, loc.token, 0, o))
              l == [loc EXCEPT !.is_valid = o.val]
          IN  IF o.raised THEN Return(validate_InternalError(o.val), loc, newlog)
              ELSE IF TokenInfoWanted(l.is_valid) THEN Goto("token_info", l, newlog)
              ELSE Goto("timestamp", l, newlog)

validate_token_info ==
    /\ route = "validate" /\ pc = "token_info"
    /\ \E o \in TokenInfoOutcomes :
          LET newlog == Append(log, Call("get_token_info", NoneVal, loc.token, 0, o))
              l == [loc EXCEPT !.token_info = o.val]
          IN  IF o.raised THEN Return(validate_InternalError(o.val), loc, newlog)
              ELSE Goto("timestamp", l, newlog)

\* the jsonify(...) of either branch, which first calls decoder.get_timestamp()
validate_respond ==
    /\ route = "validate" /\ pc = "timestamp"
    /\ \E o \in TimestampOutcomes :
          LET newlog == Append(log, Call("get_timestamp", NoneVal, NoneVal, 0, o))
          IN  IF o.raised THEN Return(validate_InternalError(o.val), loc, newlog)
              ELSE IF TokenInfoWanted(loc.is_valid)
              THEN Return(Response(200, [valid |-> TRUE, token_info |-> loc.token_info,
                                         timestamp |-> o.val]),
                          loc, newlog)
              ELSE Return(Response(401, [valid |-> FALSE,
                                         error |-> "Invalid or expired token",
                                         timestamp |-> o.val]),
                          loc, newlog)

-----------------------------------------------------------------------------
(* POST /api/batch-decode *)

Successful_All(results) == Len(results)

\* len([r for r in results if r.get('success')])
Successful(results) == Cardinality({i \in DOMAIN results : results[i].success})

MissingUrlResult(video_id) ==
    [video_id |-> video_id, success |-> FALSE, error |-> "Missing encrypted_url"]

FailedResult(video_id) ==
    [video_id |-> video_id, success |-> FALSE, error |-> "Failed to decode URL"]

\* the record the per-item except clause appends
ExceptionResult(video_id, e) ==
    [video_id |-> video_id, success |-> FALSE, error |-> e]

SuccessResult(video_id, playable_url, decoded_url) ==
    [video_id |-> video_id, success |-> TRUE, video_url |-> playable_url,
     decoded_url |-> decoded_url]

\* results.append(r), then the next iteration of the for loop
NextItem(l, r) == [l EXCEPT !.results = Append(l.results, r), !.idx = l.idx + 1]

batch_parse ==
    /\ route = "batch" /\ pc = "parse"
    /\ LET l == [loc EXCEPT !.token = request.token, !.urls = request.urls]
       IN  CASE request.kind = "malformed" ->
                  Return(batch_InternalError(BadRequest), loc, log)
             [] request.kind = "falsy" ->
                  Return(ErrorResponse(400, "Invalid JSON payload", "INVALID_JSON"), loc, log)
             [] request.kind = "nonobject" ->
                  Return(batch_InternalError(AttributeError), loc, log)
             [] OTHER ->
                  IF Not(l.token)
                  THEN Return(ErrorResponse(400, "Token is required", "MISSING_TOKEN"), l, log)
                  ELSE IF UrlsRejected(request)
                  THEN Return(ErrorResponse(400, "URLs array is required", "MISSING_URLS"),
                              l, log)
                  ELSE Goto("validate", l, log)

batch_validate ==
    /\ route = "batch" /\ pc = "validate"
    /\ \E o \in ValidateOutcomes :
          LET newlog == Append(log, Call("validate_token", NoneVal, loc.token, 0, o))
          IN  IF o.raised THEN Return(batch_InternalError(o.val), loc, newlog)
              ELSE IF TokenRejected(o.val) THEN Return(InvalidToken, loc, newlog)
              ELSE Goto("loop", [loc EXCEPT !.results = <<>>, !.idx = 1], newlog)

\* the head of one iteration: url_data.get(...) twice and the check of
\* encrypted_url. On an entry that is no dict, .get raises AttributeError in
\* the try block and again in its except clause (url_data.get('video_id')),
\* so the error leaves the loop and reaches the handler's outer except.
batch_item ==
    /\ route = "batch" /\ pc = "loop" /\ loc.idx <= Len(loc.urls)
    /\ LET url_data == loc.urls[loc.idx]
           l == [loc EXCEPT !.encrypted_url = url_data.encrypted_url,
                            !.video_id = url_data.video_id]
       IN  IF url_data.kind # "object"
           THEN Return(batch_InternalError(AttributeError), loc, log)
           ELSE IF Not(l.encrypted_url)
           THEN Goto("loop", NextItem(l, MissingUrlResult(l.video_id)), log)
           ELSE Goto("item_decode", l, log)

batch_item_decode ==
    /\ route = "batch" /\ pc = "item_decode"
    /\ \E o \in DecodeOutcomes :
          LET newlog == Append(log, Call("decode_url", loc.encrypted_url, loc.token,
                                         loc.idx, o))
              l == [loc EXCEPT !.decoded_url = o.val]
          IN  IF o.raised
              THEN Goto("loop", NextItem(loc, ExceptionResult(loc.video_id, o.val)), newlog)
              ELSE IF ~Not(l.decoded_url)
              THEN Goto("item_generate", l, newlog)
              ELSE Goto("loop", NextItem(l, FailedResult(l.video_id)), newlog)

batch_item_generate ==
    /\ route = "batch" /\ pc = "item_generate"
    /\ \E o \in GenerateOutcomes(loc.decoded_url, loc.token) :
          LET newlog == Append(log, Call("generate_playable_url", loc.decoded_url,
                                         loc.token, loc.idx, o))
          IN  IF o.raised
              THEN Goto("loop", NextItem(loc, ExceptionResult(loc.video_id, o.val)), newlog)
              ELSE Goto("loop",
                        NextItem(loc, SuccessResult(loc.video_id, o.val, loc.decoded_url)),
                        newlog)

\* after the loop: the jsonify(...) of the batch result
batch_respond ==
    /\ route = "batch" /\ pc = "loop" /\ loc.idx > Len(loc.urls)
    /\ \E o \in TimestampOutcomes :
          LET newlog == Append(log, Call("get_timestamp", NoneVal, NoneVal, 0, o))
          IN  IF o.raised THEN Return(batch_InternalError(o.val), loc, newlog)
              ELSE Return(Response(200, [success |-> TRUE,
                                         results |-> loc.results,
                                         total |-> Len(loc.urls),
                                         successful |-> Successful(loc.results),
                                         timestamp |-> o.val]),
                          loc, newlog)

-----------------------------------------------------------------------------
(* The routes without a collaborator call *)

\* the documented response fields of /api/decode
DocsDecodeResponse == {"success", "video_url", "decoded_url", "video_id", "timestamp"}

DocsErrorCodes == {"INVALID_JSON", "MISSING_TOKEN", "MISSING_URL", "INVALID_TOKEN",
                   "DECODE_FAILED", "INTERNAL_ERROR"}

\* a request that reaches no handler body: served by one action
Serve(r, response) ==
    /\ route' = r
    /\ pc' = "done"
    /\ resp' = response
    /\ request' = NoRequest
    /\ loc' = InitLoc
    /\ log' = <<>>
    /\ UNCHANGED debug

index ==
    /\ pc = "idle"
    /\ Serve("index", Response(200, [html |-> "index.html"]))

api_docs ==
    /\ pc = "idle"
    /\ Serve("docs", Response(200, [title |-> "ClassPlus Video URL Decoder API",
                                    version |-> "1.0.0",
                                    decode_response |-> DocsDecodeResponse,
                                    error_codes |-> DocsErrorCodes]))

\* flask_limiter answers instead of the view function once a limit is exceeded
ratelimit_handler ==
    /\ pc = "idle"
    /\ \E r \in Routes \cup {"index", "docs"} :
          Serve(r, Response(429, [error |-> "Rate limit exceeded",
                                 code |-> "RATE_LIMIT_EXCEEDED",
                                 description |-> "limit exceeded"]))

not_found ==
    /\ pc = "idle"
    /\ Serve("unknown", ErrorResponse(404, "Endpoint not found", "NOT_FOUND"))

-----------------------------------------------------------------------------

Next ==
    \/ Dispatch
    \/ Sent
    \/ decode_parse
    \/ decode_validate
    \/ decode_decode
    \/ decode_generate
    \/ batch_parse
    \/ batch_validate
    \/ batch_item
    \/ batch_item_decode
    \/ batch_item_generate
    \/ batch_respond
    \/ validate_parse
    \/ validate_validate
    \/ validate_token_info
    \/ validate_respond
    \/ simple_parse
    \/ simple_validate
    \/ simple_generate
    \/ index
    \/ api_docs
    \/ ratelimit_handler
    \/ not_found

Spec == Init /\ [][Next]_vars

-----------------------------------------------------------------------------
(* Vocabulary of the properties *)

Done == pc = "done"

Has(field) == field \in DOMAIN resp.body

\* Python falsiness, stated apart from the handlers' own tests
Falsy(x) == x \in {NoneVal, "", "False"}

CallsOf(op) == {k \in DOMAIN log : log[k].op = op}

ValidateTrue ==
    \E k \in CallsOf("validate_token") : ~log[k].raised /\ ~Falsy(log[k].val)

ValidateFalse ==
    \E k \in CallsOf("validate_token") : ~log[k].raised /\ Falsy(log[k].val)

\* call i comes after a validate_token call with the same token that returned truthy
ValidatedBefore(i) ==
    \E j \in 1..(i - 1) :
        /\ log[j].op = "validate_token"
        /\ log[j].token = log[i].token
        /\ ~log[j].raised
        /\ ~Falsy(log[j].val)

\* decode_url returned a non-empty value for batch entry i
ItemDecoded(i) ==
    \E k \in CallsOf("decode_url") :
        log[k].item = i /\ ~log[k].raised /\ ~Falsy(log[k].val)

\* generate_playable_url returned for batch entry i
ItemSigned(i) ==
    \E k \in CallsOf("generate_playable_url") : log[k].item = i /\ ~log[k].raised

\* a collaborator call outside the per-item batch loop raised
FaultOutsideLoop == \E k \in DOMAIN log : log[k].raised /\ log[k].item = 0

-----------------------------------------------------------------------------
(* C1 *)

\* C1: in every handler, generate_playable_url(u, t) is called only after
\* validate_token(t) was called earlier in the same request with the same token
\* (the request's token) and returned a truthy value; no request in which
\* validate_token returned false has a generate_playable_url call.
Thm_C1 ==
    /\ \A i \in CallsOf("generate_playable_url") :
          /\ route \in {"decode", "batch", "simple"}
          /\ log[i].token = request.token
          /\ ValidatedBefore(i)
    /\ ValidateFalse => CallsOf("generate_playable_url") = {}

Witness_C1 ==
    /\ Done /\ route = "batch" /\ resp.status = 200
    /\ Cardinality(CallsOf("generate_playable_url")) >= 2

-----------------------------------------------------------------------------
(* C2 *)

\* C2: in POST /api/decode and POST /api/batch-decode, once validate_token has
\* returned false the request has ended with HTTP 401 and code INVALID_TOKEN and
\* decode_url has not been called, for no entry of a batch either.
Thm_C2 ==
    (route \in {"decode", "batch"} /\ ValidateFalse) =>
        /\ Done
        /\ resp.status = 401
        /\ Has("code") /\ resp.body.code = "INVALID_TOKEN"
        /\ CallsOf("decode_url") = {}

Witness_C2 ==
    /\ Done /\ route = "batch" /\ ValidateFalse
    /\ Len(request.urls) >= 2
    /\ resp.status = 401

-----------------------------------------------------------------------------
(* C3 *)

\* C3: in POST /api/batch-decode with a valid token and no fault outside the
\* loop, whatever the entries are (without encrypted_url, undecodable, raising,
\* or no JSON object at all) the request returns the batch result with one
\* record per submitted entry, and every entry that decoded and was signed is
\* reported as a success.
CE_C3 ==
    (Done /\ route = "batch" /\ ValidateTrue /\ ~FaultOutsideLoop) =>
        /\ resp.status = 200
        /\ Has("results")
        /\ Len(resp.body.results) = Len(request.urls)
        /\ \A i \in DOMAIN request.urls :
              (ItemDecoded(i) /\ ItemSigned(i)) => resp.body.results[i].success

-----------------------------------------------------------------------------
(* C4 *)

\* C4: every batch result returned by POST /api/batch-decode has total equal to
\* the number of submitted entries, as many results as total, the results in
\* submission order, a record successful exactly when decode_url returned a
\* non-empty URL for its entry and generate_playable_url then returned, and
\* successful equal to the number of such entries.
Thm_C4 ==
    (Done /\ route = "batch" /\ resp.status = 200) =>
        LET b == resp.body
            ok == {i \in DOMAIN request.urls : ItemDecoded(i) /\ ItemSigned(i)}
        IN  /\ b.total = Len(request.urls)
            /\ Len(b.results) = b.total
            /\ \A i \in DOMAIN b.results :
                  /\ b.results[i].video_id = request.urls[i].video_id
                  /\ b.results[i].success <=> i \in ok
                  /\ b.results[i].success =>
                        \E k \in CallsOf("generate_playable_url") :
                            /\ log[k].item = i
                            /\ log[k].val = b.results[i].video_url
                            /\ log[k].arg = b.results[i].decoded_url
            /\ b.successful = Cardinality(ok)

\* the scenario of the specification: 5 entries, 2 of them malformed
Witness_C4 ==
    /\ Done /\ route = "batch" /\ resp.status = 200
    /\ resp.body.total = ScenarioLen
    /\ resp.body.successful = ScenarioLen - ScenarioBad
    /\ Cardinality({i \in DOMAIN resp.body.results : ~resp.body.results[i].success})
          = ScenarioBad

-----------------------------------------------------------------------------
(* C5 *)

\* the request-level input errors: an empty parsed body, a missing or empty
\* token, encrypted_url or url parameter, a missing, non-list or empty urls array
InputError ==
    \/ /\ route \in {"decode", "batch", "validate"}
       /\ request.kind = "falsy"
    \/ /\ route \in {"decode", "batch", "validate"}
       /\ request.kind = "object"
       /\ Falsy(request.token)
    \/ /\ route = "decode"
       /\ request.kind = "object"
       /\ Falsy(request.encrypted_url)
    \/ /\ route = "batch"
       /\ request.kind = "object"
       /\ (request.urlsKind # "list" \/ Len(request.urls) = 0)
    \/ /\ route = "simple"
       /\ request.kind = "args"
       /\ (Falsy(request.url) \/ Falsy(request.token))

\* a batch entry that is an object without encrypted_url
MalformedEntry(i) ==
    /\ request.urls[i].kind = "object"
    /\ Falsy(request.urls[i].encrypted_url)

HasMalformedEntry ==
    /\ route = "batch"
    /\ request.kind = "object"
    /\ \E i \in DOMAIN request.urls : MalformedEntry(i)

-----------------------------------------------------------------------------
(* C6 *)

\* C6: in POST /api/decode, once decode_url has returned None or the empty
\* string the request has ended with HTTP 400 and code DECODE_FAILED, without a
\* generate_playable_url call and without a decoded_url or url field; and a
\* response with a decoded_url carries exactly the non-empty value decode_url
\* returned.
Thm_C6 ==
    route = "decode" =>
        /\ (\E k \in CallsOf("decode_url") : ~log[k].raised /\ Falsy(log[k].val)) =>
              /\ Done
              /\ resp.status = 400
              /\ Has("code") /\ resp.body.code = "DECODE_FAILED"
              /\ CallsOf("generate_playable_url") = {}
              /\ ~Has("decoded_url")
              /\ ~Has("url")
        /\ (Done /\ Has("decoded_url")) =>
              \E k \in CallsOf("decode_url") :
                  /\ ~log[k].raised
                  /\ ~Falsy(log[k].val)
                  /\ log[k].val = resp.body.decoded_url

Witness_C6 ==
    /\ Done /\ route = "decode"
    /\ \E k \in CallsOf("decode_url") : ~log[k].raised /\ log[k].val = ""
    /\ resp.status = 400

-----------------------------------------------------------------------------
(* C7 *)

\* C7: in the validate-token handler get_token_info(token) is called only after
\* validate_token(token) returned true for that token in the same request; when
\* validate_token returned false, get_token_info is never called, the response
\* has no token_info, and it is HTTP 401 with valid == false (the one other
\* ending being the HTTP 500 of a get_timestamp that raises, see C8).
Thm_C7 ==
    route = "validate" =>
        /\ \A i \in CallsOf("get_token_info") :
              /\ log[i].token = request.token
              /\ ValidatedBefore(i)
        /\ ValidateFalse =>
              /\ CallsOf("get_token_info") = {}
              /\ Done =>
                    /\ ~Has("token_info")
                    /\ IF FaultOutsideLoop
                       THEN resp.status = 500 /\ log[Len(log)].op = "get_timestamp"
                       ELSE resp.status = 401 /\ resp.body.valid = FALSE

Witness_C7 ==
    /\ Done /\ route = "validate" /\ ValidateFalse
    /\ resp.status = 401

-----------------------------------------------------------------------------
(* C8 *)

\* C8: an exception raised by a collaborator call outside the per-item batch
\* loop ends the request with HTTP 500, never with a success response, a
\* playable URL, a batch result or token_info; a 500 body has a non-null
\* details only when app.debug is set, and then it is the exception's text; the
\* 500 body of GET /api has no details at all, only the fixed error text.
Thm_C8 ==
    Done =>
        /\ FaultOutsideLoop =>
              /\ resp.status = 500
              /\ ~Has("url") /\ ~Has("video_url") /\ ~Has("decoded_url")
              /\ ~Has("results") /\ ~Has("token_info")
              /\ Has("success") => resp.body.success = FALSE
              /\ log[Len(log)].raised
              /\ route # "simple" =>
                    resp.body.details = (IF debug THEN log[Len(log)].val ELSE NoneVal)
        /\ (resp.status = 500 /\ Has("details") /\ resp.body.details # NoneVal) => debug
        /\ (route = "simple" /\ resp.status = 500) =>
              /\ DOMAIN resp.body = {"status", "success", "error"}
              /\ resp.body.error = "Internal server error"

Witness_C8 ==
    /\ Done /\ route = "validate" /\ debug
    /\ Len(log) > 0
    /\ log[Len(log)].op = "get_timestamp" /\ log[Len(log)].raised
    /\ resp.status = 500
    /\ resp.body.details = CoreError("get_timestamp")

-----------------------------------------------------------------------------
(* C9 *)

\* C9: GET /api with non-empty url and token calls validate_token(token); it
\* never calls decode_url; once the token validated it calls
\* generate_playable_url(url, token) with the url exactly as supplied; and the
\* playable URL that call returns is the url of a status ok response (a call
\* that raises ends as C8 says).
Thm_C9 ==
    (route = "simple" /\ request.kind = "args") =>
        /\ CallsOf("decode_url") = {}
        /\ \A i \in CallsOf("generate_playable_url") :
              log[i].arg = request.url /\ log[i].token = request.token
        /\ (Done /\ ~Falsy(request.url) /\ ~Falsy(request.token)) =>
              /\ Len(log) >= 1
              /\ log[1].op = "validate_token"
              /\ log[1].token = request.token
        /\ (Done /\ ValidateTrue) =>
              /\ Len(log) = 2
              /\ log[2].op = "generate_playable_url"
              /\ IF log[2].raised
                 THEN resp.status = 500
                 ELSE /\ resp.status = 200
                      /\ resp.body.status = "ok"
                      /\ resp.body.url = log[2].val

Witness_C9 ==
    /\ Done /\ route = "simple"
    /\ request.url = "http://cdn/v.m3u8"
    /\ resp.status = 200
    /\ resp.body.url = Playable("http://cdn/v.m3u8", request.token)

-----------------------------------------------------------------------------
(* C10 *)

\* C10: a successful POST /api/decode response has the fields /api/docs
\* documents: success, video_url, decoded_url, video_id and timestamp.
CE_C10 ==
    (Done /\ route = "decode" /\ resp.status = 200) =>
        DocsDecodeResponse \subseteq DOMAIN resp.body

====
